---- MODULE Spec2Model ----
(***************************************************************************)
(* Model of scripts/vendor.py: the VendorManager that vendors files of the *)
(* latest release of a remote repository into a destination directory and  *)
(* records the vendored version in .vendor_version / .vendor_info.         *)
(*                                                                         *)
(* Strings are sequences of one-character strings, so that str.strip and   *)
(* fnmatch are computed character by character.  A path is a sequence of   *)
(* names.  An Optional value is a sequence of at most one element.         *)
(***************************************************************************)
EXTENDS Integers, Sequences, FiniteSets, TLC

\* ------------------------------------------------------------------ bounds
\* Number of check_and_update calls in one behaviour.
MaxRuns == 2
\* Number of times the remote publishes another release in one behaviour.
MaxReleases == 1

\* ----------------------------------------------------------------- strings
None == <<>>
Some(x) == <<x>>

\* The characters str.strip() removes from both ends: the newline, and " "
\* for any other white space (str.isspace), such as U+00A0.
Whitespace == {" ", "\n"}

RECURSIVE lstrip(_)
lstrip(s) ==
    IF s # <<>> /\ s[1] \in Whitespace THEN lstrip(Tail(s)) ELSE s

RECURSIVE rstrip(_)
rstrip(s) ==
    IF s # <<>> /\ s[Len(s)] \in Whitespace
    THEN rstrip(SubSeq(s, 1, Len(s) - 1))
    ELSE s

\* str.strip(): leading and trailing whitespace removed.
strip(s) == rstrip(lstrip(s))

\* fnmatch.fnmatch(name, pat) on POSIX (normcase is the identity): "*" matches
\* any run of characters, "/" included, "?" any one character, every other
\* character itself.  The patterns of the model hold no character classes.
RECURSIVE fnmatch(_, _)
fnmatch(name, pat) ==
    IF pat = <<>> THEN name = <<>>
    ELSE IF pat[1] = "*"
         THEN \/ fnmatch(name, Tail(pat))
              \/ name # <<>> /\ fnmatch(Tail(name), pat)
    ELSE IF pat[1] = "?"
         THEN name # <<>> /\ fnmatch(Tail(name), Tail(pat))
    ELSE name # <<>> /\ name[1] = pat[1] /\ fnmatch(Tail(name), Tail(pat))

\* str(PurePath): the names joined by "/".
RECURSIVE PathStr(_)
PathStr(p) ==
    IF p = <<>> THEN <<>>
    ELSE IF Len(p) = 1 THEN p[1]
    ELSE p[1] \o <<"/">> \o PathStr(Tail(p))

\* Path(p).name: the last name of a path.
BaseName(p) == p[Len(p)]

IsPrefix(d, p) == Len(d) <= Len(p) /\ SubSeq(p, 1, Len(d)) = d

\* ------------------------------------------------- _vendor_folder helpers
\* _matches_pattern(file_path, patterns): an empty pattern list matches.
_matches_pattern(file_path, patterns) ==
    IF patterns = {} THEN TRUE
    ELSE \E pattern \in patterns : fnmatch(file_path, pattern)

\* A test that ignores the exclude patterns.
_should_include_file_IncludeOnly(file_path, include_patterns, exclude_patterns) ==
    IF include_patterns = {} THEN TRUE
    ELSE _matches_pattern(file_path, include_patterns)

_should_include_file(file_path, include_patterns, exclude_patterns) ==
    LET include_match ==
            IF include_patterns = {} THEN TRUE
            ELSE _matches_pattern(file_path, include_patterns)
        exclude_match ==
            IF exclude_patterns = {} THEN FALSE
            ELSE _matches_pattern(file_path, exclude_patterns)
    IN include_match /\ ~exclude_match

\* ------------------------------------------------------------ file trees
\* A tree is a function from the paths of its files (relative to its root) to
\* their contents; its directories are the proper prefixes of those paths.
EmptyTree == <<>>

DirsOf(tree) ==
    UNION {{SubSeq(f, 1, n) : n \in 0 .. (Len(f) - 1)} : f \in DOMAIN tree}

\* Path.exists() / Path.is_dir() in a tree.
Exists(tree, p) == p \in DOMAIN tree \/ p \in DirsOf(tree)
IsDir(tree, p) == p \in DirsOf(tree)

FileNames(tree, root) ==
    {f[Len(f)] : f \in {g \in DOMAIN tree : Len(g) = Len(root) + 1 /\ IsPrefix(root, g)}}

DirNames(tree, root) ==
    {d[Len(d)] : d \in {g \in DirsOf(tree) : Len(g) = Len(root) + 1 /\ IsPrefix(root, g)}}

\* The order in which a directory lists its entries (os.scandir).
RECURSIVE Listing(_)
Listing(S) ==
    IF S = {} THEN <<>>
    ELSE LET x == CHOOSE y \in S : TRUE IN <<x>> \o Listing(S \ {x})

\* A walk that filters no directory out.
KeepDir_NoFilter(d, exclude_patterns) == TRUE

\* dirs[:] = [d for d in dirs if not _matches_pattern(d, exclude_patterns)]
KeepDir(d, exclude_patterns) == ~_matches_pattern(d, exclude_patterns)

\* os.walk(src_folder), top down, with the in-place filter of dirs that
\* _vendor_folder applies at each directory: the sequence of (root, files).
RECURSIVE os_walk(_, _, _)
os_walk(tree, root, exclude_patterns) ==
    LET files == Listing(FileNames(tree, root))
        dirs == Listing({d \in DirNames(tree, root) : KeepDir(d, exclude_patterns)})
        RECURSIVE Below(_)
        Below(i) ==
            IF i > Len(dirs) THEN <<>>
            ELSE os_walk(tree, root \o <<dirs[i]>>, exclude_patterns) \o Below(i + 1)
    IN <<[root |-> root, files |-> files]>> \o Below(1)

\* A destination below the rule's whole path instead of its last name.
DstPath_FullPath(folder_path, rel_path, preserve_structure) ==
    IF preserve_structure
    THEN folder_path \o rel_path
    ELSE folder_path \o <<rel_path[Len(rel_path)]>>

\* The destination path of one walked file (relative to the destination).
DstPath(folder_path, rel_path, preserve_structure) ==
    IF preserve_structure
    THEN <<BaseName(folder_path)>> \o rel_path
    ELSE <<BaseName(folder_path), BaseName(rel_path)>>

\* The copies _vendor_folder makes, in order: [src, dst] with src relative to
\* the snapshot and dst relative to the destination.
_vendor_folder(tree, folder_config) ==
    LET folder_path == folder_config.path
        include_patterns == folder_config.include
        exclude_patterns == folder_config.exclude
        preserve_structure == folder_config.preserve_structure
        walk == os_walk(tree, folder_path, exclude_patterns)
        RECURSIVE InDir(_, _)
        InDir(w, j) ==
            IF j > Len(w.files) THEN <<>>
            ELSE LET file_path == w.root \o <<w.files[j]>>
                     rel_path == SubSeq(file_path, Len(folder_path) + 1, Len(file_path))
                 IN (IF _should_include_file(PathStr(rel_path), include_patterns,
                                             exclude_patterns)
                     THEN <<[src |-> file_path,
                             dst |-> DstPath(folder_path, rel_path, preserve_structure),
                             ok |-> TRUE]>>
                     ELSE <<>>) \o InDir(w, j + 1)
        RECURSIVE Over(_)
        Over(i) == IF i > Len(walk) THEN <<>> ELSE InDir(walk[i], 1) \o Over(i + 1)
    IN IF ~Exists(tree, folder_path) \/ ~IsDir(tree, folder_path) THEN <<>>
       ELSE Over(1)

\* A loop over the individual files that ends _vendor_files at the first
\* file the snapshot lacks.
_vendor_files_StopAtMissing(tree, files_to_vendor, folders_to_vendor) ==
    LET RECURSIVE Folders(_)
        Folders(i) ==
            IF i > Len(folders_to_vendor) THEN <<>>
            ELSE _vendor_folder(tree, folders_to_vendor[i]) \o Folders(i + 1)
        RECURSIVE Files(_)
        Files(i) ==
            IF i > Len(files_to_vendor) THEN Folders(1)
            ELSE LET file_path == files_to_vendor[i]
                 IN IF ~Exists(tree, file_path) THEN <<>>
                    ELSE <<[src |-> file_path,
                            dst |-> <<BaseName(file_path)>>,
                            ok |-> file_path \in DOMAIN tree]>> \o Files(i + 1)
    IN Files(1)

\* The copies _vendor_files makes, in order: the individual files, then each
\* folder rule.  A listed path that is a directory makes copy2 raise (ok = FALSE).
_vendor_files(tree, files_to_vendor, folders_to_vendor) ==
    LET RECURSIVE Files(_)
        Files(i) ==
            IF i > Len(files_to_vendor) THEN <<>>
            ELSE LET file_path == files_to_vendor[i]
                 IN (IF ~Exists(tree, file_path) THEN <<>>
                     ELSE <<[src |-> file_path,
                             dst |-> <<BaseName(file_path)>>,
                             ok |-> file_path \in DOMAIN tree]>>) \o Files(i + 1)
        RECURSIVE Folders(_)
        Folders(i) ==
            IF i > Len(folders_to_vendor) THEN <<>>
            ELSE _vendor_folder(tree, folders_to_vendor[i]) \o Folders(i + 1)
    IN Files(1) \o Folders(1)

\* Mutant: the destination is made a mirror of what was copied.
CopyAll_Mirror(tree, dst, ops, n) ==
    [p \in {ops[i].dst : i \in 1 .. n} |->
        tree[ops[CHOOSE i \in 1 .. n : ops[i].dst = p].src]]

\* shutil.copy2 of the first n copies of ops into the destination files dst.
RECURSIVE CopyAll(_, _, _, _)
CopyAll(tree, dst, ops, n) ==
    IF n = 0 THEN dst
    ELSE LET d == CopyAll(tree, dst, ops, n - 1)
             op == ops[n]
         IN [p \in DOMAIN d \cup {op.dst} |-> IF p = op.dst THEN tree[op.src] ELSE d[p]]

\* ------------------------------------------------------------ the remote
\* release_data["tag_name"]: the version tags of the remote's releases, one of
\* them with trailing whitespace.
v1 == <<"v", "1">>
v2 == <<"v", "2">>
v1_ == <<"v", "1", " ">>

\* (version, commit_sha) as _get_latest_release returns them, for each release
\* the remote can publish.
Releases ==
    {[version |-> v1, commit_sha |-> "c1"],
     [version |-> v2, commit_sha |-> "c2"],
     [version |-> v1_, commit_sha |-> "c2"]}

\* Names and paths of the repository's files.
n_src == <<"s", "r", "c">>
n_inc == <<"i", "n", "c">>
n_int == <<"i", "n", "t">>
n_sub == <<"s", "u", "b">>
n_lib_h == <<"l", ".", "h">>
n_a_h == <<"a", ".", "h">>
n_b_h == <<"b", ".", "h">>
n_c_t == <<"c", ".", "t">>
n_d_h == <<"d", ".", "h">>

\* The files of the repository at each commit.
RepoFiles(commit) ==
    IF commit = "c1"
    THEN {<<n_src, n_lib_h>>, <<n_inc, n_a_h>>, <<n_inc, n_c_t>>, <<n_inc, n_int, n_b_h>>}
    ELSE {<<n_inc, n_a_h>>, <<n_inc, n_int, n_b_h>>, <<n_inc, n_sub, n_d_h>>}

\* The checkout of a commit: every file holds that commit's content of it.
Snapshot(commit) == [f \in RepoFiles(commit) |-> <<commit, f>>]

\* vendor.files and vendor.folders of the configuration file.
ConfigFiles == <<<<n_src, n_lib_h>>>>
ConfigFolders ==
    <<[path |-> <<n_inc>>,
       include |-> {<<"*", ".", "h">>},
       exclude |-> {<<"i", "n", "t", "/", "*">>},
       preserve_structure |-> TRUE]>>

\* ------------------------------------------------------------- the state
Procs == {1, 2}

VARIABLES
    remote,             \* the latest release of the remote repository
    released,           \* how often the remote published another release
    verFile,            \* <destination>/.vendor_version: None or Some(text)
    infoFile,           \* <destination>/.vendor_info: None or Some(record)
    destFiles,          \* the other files under <destination>: path -> content
    tempDirs,           \* the directories mkdtemp made that exist: id -> tree
    files_to_vendor,    \* self.files_to_vendor
    folders_to_vendor,  \* self.folders_to_vendor
    inv,                \* per invocation of check_and_update: its locals
    runs,               \* the calls of check_and_update made so far
    last,               \* None or Some(summary of the call that returned last)
    main                \* main(): its arguments, its position, its return value

vars == <<remote, released, verFile, infoFile, destFiles, tempDirs,
          files_to_vendor, folders_to_vendor, inv, runs, last, main>>

disk == <<verFile, infoFile, destFiles>>
config == <<files_to_vendor, folders_to_vendor>>

\* What a failed json.dump leaves in .vendor_info: a partly written record.
PartialInfo == [version |-> <<>>, commit_sha |-> "partial"]

\* The exception classes the steps raise, and Python's class hierarchy over them.
ExcClasses == {"CalledProcessError", "OSError", "RequestException", "RuntimeError"}
IsInstance(e, class) == e \in ExcClasses /\ (class = "Exception" \/ e = class)

\* The events a failing step logs.
Failures ==
    {"get_latest_failed", "get_current_failed", "mkdtemp_failed", "clone_failed",
     "checkout_failed", "vendor_files_failed", "save_version_failed",
     "save_info_failed"}

Idle ==
    [pc |-> "idle", force |-> FALSE, version |-> <<>>, commit_sha |-> "",
     current_version |-> None, temp_dir |-> 0, repo_path |-> 0,
     exc |-> None, result |-> "none", log |-> <<>>,
     pre |-> <<None, None, EmptyTree, EmptyTree>>, run |-> 0, at |-> 0, end |-> 0]

\* main() is not running: check_and_update is called directly.
NoMain ==
    [pc |-> "none", force |-> FALSE, check_only |-> FALSE, failed |-> "none",
     exit |-> "none"]

Init ==
    /\ main = NoMain
    /\ remote \in Releases
    /\ released = 0
    /\ verFile = None
    /\ infoFile = None
    /\ destFiles = EmptyTree
    /\ tempDirs = EmptyTree
    /\ files_to_vendor = ConfigFiles
    /\ folders_to_vendor = ConfigFolders
    /\ inv = [p \in Procs |-> Idle]
    /\ runs = 0
    /\ last = None

\* One step of invocation p: its locals become r, with event e logged.
Step(p, r, e) == inv' = [inv EXCEPT ![p] = [r EXCEPT !.log = Append(@, e)]]

\* raise: the exception e is in flight and control is at handler h.
Raise(p, e, h, ev) == Step(p, [inv[p] EXCEPT !.pc = h, !.exc = Some(e)], ev)

\* check_and_update returns value.
Return(p, r, value, ev) ==
    Step(p, [r EXCEPT !.pc = "done", !.result = value, !.exc = None, !.end = released], ev)

\* What is kept of a call once the next one starts.
Summary(r) ==
    [force |-> r.force, result |-> r.result, fresh |-> r.pre[1] = None,
     failed |-> \E i \in 1 .. Len(r.log) : r.log[i] \in Failures,
     at |-> r.at, end |-> r.end]

\* ---------------------------------------------------------- the ledger
\* _get_current_version(): the text of .vendor_version, stripped, or None.
_get_current_version ==
    IF verFile = None THEN None ELSE Some(strip(verFile[1]))

\* f.write(f"{version}\n")
VersionText(version) == version \o <<"\n">>

\* Mutant: the info dict records no commit.
InfoRecord_NoCommit(version, commit_sha) == [version |-> version, commit_sha |-> ""]

\* The info dict json.dump writes (vendored_at and repository left out).
InfoRecord(version, commit_sha) == [version |-> version, commit_sha |-> commit_sha]

\* ------------------------------------------------------ exception handlers
\* except subprocess.CalledProcessError (in _clone_repository)
CloneCatches(e) == IsInstance(e, "CalledProcessError")

\* Mutant: the handler catches RuntimeError only.
UpdateCatches_RuntimeError(e) == IsInstance(e, "RuntimeError")

\* except Exception (in check_and_update)
UpdateCatches(e) == IsInstance(e, "Exception")

\* tempfile.mkdtemp: a directory no other call of mkdtemp returns; a call of
\* check_and_update makes one at most, so its number names it.
FreshDir(p) == inv[p].run

\* shutil.rmtree(d, ignore_errors=True)
Rmtree(d) == [i \in (DOMAIN tempDirs) \ {d} |-> tempDirs[i]]

PutDirIn(dirs, d, tree) == [i \in (DOMAIN dirs) \cup {d} |-> IF i = d THEN tree ELSE dirs[i]]
PutDir(d, tree) == PutDirIn(tempDirs, d, tree)

\* ------------------------------------------------------------ the actions
\* check_and_update(force) is called.
Call(p, force) ==
    /\ inv[p].pc \in {"idle", "done"}
    /\ runs < MaxRuns
    /\ runs' = runs + 1
    /\ inv' = [inv EXCEPT ![p] = [Idle EXCEPT !.pc = "get_latest", !.force = force,
                                              !.pre = <<verFile, infoFile, destFiles, tempDirs>>,
                                              !.run = runs + 1, !.at = released]]
    /\ last' = IF inv[p].pc = "done" THEN Some(Summary(inv[p])) ELSE last
    /\ UNCHANGED <<remote, released, disk, tempDirs, config, main>>

\* version, commit_sha = self._get_latest_version()
GetLatest(p) ==
    /\ inv[p].pc = "get_latest"
    /\ \/ Step(p, [inv[p] EXCEPT !.pc = "get_current", !.version = remote.version,
                                 !.commit_sha = remote.commit_sha], "get_latest")
       \/ Raise(p, "RequestException", "except", "get_latest_failed")
    /\ UNCHANGED <<remote, released, disk, tempDirs, config, main, runs, last>>

\* Mutant: the test of force is inverted.
UpToDate_ForceInverted(r) == r.force /\ r.current_version = Some(r.version)

\* Mutant: force is not looked at.
UpToDate_ForceIgnored(r) == r.current_version = Some(r.version)

\* if not force and current_version == version
UpToDate(r) == ~r.force /\ r.current_version = Some(r.version)

\* current_version = self._get_current_version(); the version comparison.
GetCurrent(p) ==
    /\ inv[p].pc = "get_current"
    /\ \/ LET r == [inv[p] EXCEPT !.current_version = _get_current_version]
          IN IF UpToDate(r)
             THEN Return(p, r, "False", "no_update")
             ELSE Step(p, [r EXCEPT !.pc = "mkdtemp"], "get_current")
       \/ Raise(p, "OSError", "except", "get_current_failed")
    /\ UNCHANGED <<remote, released, disk, tempDirs, config, main, runs, last>>

\* temp_dir = tempfile.mkdtemp(prefix="vendor_")
Mkdtemp(p) ==
    /\ inv[p].pc = "mkdtemp"
    /\ \/ /\ Step(p, [inv[p] EXCEPT !.pc = "clone", !.temp_dir = FreshDir(p)], "mkdtemp")
          /\ tempDirs' = PutDir(FreshDir(p), EmptyTree)
       \/ /\ Raise(p, "OSError", "except", "mkdtemp_failed")
          /\ UNCHANGED tempDirs
    /\ UNCHANGED <<remote, released, disk, config, main, runs, last>>

\* Where an exception raised inside _clone_repository's try goes.
CloneHandler(e) == IF CloneCatches(e) THEN "clone_except" ELSE "except"

\* git clone --depth 1 repo_url temp_dir
GitClone(p) ==
    /\ inv[p].pc = "clone"
    /\ \/ /\ Step(p, [inv[p] EXCEPT !.pc = "checkout"], "clone")
          /\ tempDirs' = PutDir(inv[p].temp_dir, Snapshot(remote.commit_sha))
       \/ /\ \E e \in {"CalledProcessError", "OSError"} :
                 Raise(p, e, CloneHandler(e), "clone_failed")
          /\ UNCHANGED tempDirs
    /\ UNCHANGED <<remote, released, disk, config, main, runs, last>>

\* Mutant: the ledger is written right after the clone, the copy left out.
AfterClone_NoCopy == "save_version"

\* The statement after repo_path = self._clone_repository(commit_sha).
AfterClone == "vendor_files"

\* git checkout commit_sha; return Path(temp_dir)
GitCheckout(p) ==
    /\ inv[p].pc = "checkout"
    /\ \/ /\ Step(p, [inv[p] EXCEPT !.pc = AfterClone, !.repo_path = inv[p].temp_dir],
                  "checkout")
          /\ tempDirs' = PutDir(inv[p].temp_dir, Snapshot(inv[p].commit_sha))
       \/ /\ \E e \in {"CalledProcessError", "OSError"} :
                 Raise(p, e, CloneHandler(e), "checkout_failed")
          /\ UNCHANGED tempDirs
    /\ UNCHANGED <<remote, released, disk, config, main, runs, last>>

\* except CalledProcessError: shutil.rmtree(temp_dir, ignore_errors=True)
ExceptRmtree(p) == Rmtree(inv[p].temp_dir)

\* The except clause of _clone_repository; raise RuntimeError
CloneExcept(p) ==
    /\ inv[p].pc = "clone_except"
    /\ tempDirs' = ExceptRmtree(p)
    /\ Raise(p, "RuntimeError", "except", "rmtree_temp_dir")
    /\ UNCHANGED <<remote, released, disk, config, main, runs, last>>

\* Where an exception raised inside the try around _vendor_files and
\* _save_version_info goes: to its finally clause.
UpdateHandler(e) == "finally"

\* self._vendor_files(repo_path): every copy, or the first n and then an error.
VendorFiles(p) ==
    /\ inv[p].pc = "vendor_files"
    /\ LET tree == tempDirs[inv[p].repo_path]
           ops == _vendor_files(tree, files_to_vendor, folders_to_vendor)
           bad == {i \in 1 .. Len(ops) : ~ops[i].ok}
       IN \/ /\ bad = {}
             /\ destFiles' = CopyAll(tree, destFiles, ops, Len(ops))
             /\ Step(p, [inv[p] EXCEPT !.pc = "save_version"], "vendor_files")
          \/ \E n \in 0 .. Len(ops) :
                /\ n < Len(ops) \/ n = 0
                /\ \A i \in bad : n < i
                /\ destFiles' = CopyAll(tree, destFiles, ops, n)
                /\ Raise(p, "OSError", UpdateHandler("OSError"), "vendor_files_failed")
    /\ UNCHANGED <<remote, released, verFile, infoFile, tempDirs, config, main, runs, last>>

\* _save_version_info: mkdir, then open(version_file, "w") and f.write.
SaveVersion(p) ==
    /\ inv[p].pc = "save_version"
    /\ \/ /\ verFile' = Some(VersionText(inv[p].version))
          /\ Step(p, [inv[p] EXCEPT !.pc = "save_info"], "save_version")
       \/ /\ UNCHANGED verFile
          /\ Raise(p, "OSError", UpdateHandler("OSError"), "save_version_failed")
       \/ /\ verFile' = Some(<<>>)
          /\ Raise(p, "OSError", UpdateHandler("OSError"), "save_version_failed")
    /\ UNCHANGED <<remote, released, infoFile, destFiles, tempDirs, config, main, runs, last>>

\* _save_version_info: open(info_file, "w") and json.dump; then return True.
SaveInfo(p) ==
    /\ inv[p].pc = "save_info"
    /\ \/ /\ infoFile' = Some(InfoRecord(inv[p].version, inv[p].commit_sha))
          /\ Step(p, [inv[p] EXCEPT !.pc = "finally"], "save_info")
       \/ /\ UNCHANGED infoFile
          /\ Raise(p, "OSError", UpdateHandler("OSError"), "save_info_failed")
       \/ /\ infoFile' = Some(PartialInfo)
          /\ Raise(p, "OSError", UpdateHandler("OSError"), "save_info_failed")
    /\ UNCHANGED <<remote, released, verFile, destFiles, tempDirs, config, main, runs, last>>

\* Mutant: the snapshot is removed after the last statement of the try block
\* instead of in a finally clause.
FinallyRmtree_NoFinally(p) ==
    IF inv[p].exc = None THEN Rmtree(inv[p].repo_path) ELSE tempDirs

\* Mutant: the clean-up removes every temporary directory.
FinallyRmtree_All(p) == EmptyTree

\* finally: shutil.rmtree(repo_path, ignore_errors=True)
FinallyRmtree(p) == Rmtree(inv[p].repo_path)

\* The finally clause; then the pending return or exception.
Finally(p) ==
    /\ inv[p].pc = "finally"
    /\ tempDirs' = FinallyRmtree(p)
    /\ IF inv[p].exc = None
       THEN Return(p, inv[p], "True", "rmtree_repo_path")
       ELSE Step(p, [inv[p] EXCEPT !.pc = "except"], "rmtree_repo_path")
    /\ UNCHANGED <<remote, released, disk, config, main, runs, last>>

\* except Exception: return False; any other exception leaves check_and_update.
Except(p) ==
    /\ inv[p].pc = "except"
    /\ IF UpdateCatches(inv[p].exc[1])
       THEN Return(p, inv[p], "False", "caught")
       ELSE Return(p, inv[p], "raised", "uncaught")
    /\ UNCHANGED <<remote, released, disk, tempDirs, config, main, runs, last>>

\* The remote publishes another release.  Only GetLatest and GitClone read the
\* remote, so a release published at any other moment is seen as one published
\* just before the next of them.
Release ==
    /\ released < MaxReleases
    /\ \E p \in Procs : inv[p].pc \in {"get_latest", "clone"}
    /\ released' = released + 1
    /\ remote' \in Releases \ {remote}
    /\ UNCHANGED <<disk, tempDirs, config, main, inv, runs, last>>

\* One invocation at a time: the program run by a scheduler or by hand.
Next ==
    \/ \E force \in BOOLEAN : Call(1, force)
    \/ GetLatest(1)
    \/ GetCurrent(1)
    \/ Mkdtemp(1)
    \/ GitClone(1)
    \/ GitCheckout(1)
    \/ CloneExcept(1)
    \/ VendorFiles(1)
    \/ SaveVersion(1)
    \/ SaveInfo(1)
    \/ Finally(1)
    \/ Except(1)
    \/ Release

Spec == Init /\ [][Next]_vars

\* ------------------------------------------------- concurrent invocations
\* Two invocations on the same destination, started by two schedulers: nothing
\* in the program coordinates them, so their steps interleave freely.  Each is
\* called once, without --force as a scheduler calls it, and the one that is
\* called first is invocation 1.
CallOnce(p) ==
    /\ inv[p].pc = "idle"
    /\ \A q \in Procs : q < p => inv[q].pc # "idle"
    /\ Call(p, FALSE)

NextRace ==
    \/ \E p \in Procs : CallOnce(p)
    \/ \E p \in Procs : GetLatest(p)
    \/ \E p \in Procs : GetCurrent(p)
    \/ \E p \in Procs : Mkdtemp(p)
    \/ \E p \in Procs : GitClone(p)
    \/ \E p \in Procs : GitCheckout(p)
    \/ \E p \in Procs : CloneExcept(p)
    \/ \E p \in Procs : VendorFiles(p)
    \/ \E p \in Procs : SaveVersion(p)
    \/ \E p \in Procs : SaveInfo(p)
    \/ \E p \in Procs : Finally(p)
    \/ \E p \in Procs : Except(p)
    \/ Release

\* Nothing is vendored yet and the remote's latest release is v1.
InitRace ==
    /\ Init
    /\ remote = [version |-> v1, commit_sha |-> "c1"]

SpecRace == InitRace /\ [][NextRace]_vars

\* ------------------------------------------------------------------ main
\* except Exception as e (in main): return 1
MainCatches(e) == IsInstance(e, "Exception")

\* An exception raised in main's try block at a step: main returns 1 when its
\* except clause catches it.
MainRaise(e, step) ==
    main' = [main EXCEPT !.pc = "done", !.failed = step,
                         !.exit = IF MainCatches(e) THEN "1" ELSE "raised"]

\* Mutant: main reports a run that did not update as a failure.
UpdateExit_FailOnFalse(updated) == IF updated = "True" THEN "0" ELSE "1"

\* main after check_and_update returned: prints VENDOR_UPDATED, returns 0.
UpdateExit(updated) == "0"

\* vendor_manager = VendorManager(args.config): the configuration file is
\* loaded, or is missing or malformed.
MainLoad ==
    /\ main.pc = "load"
    /\ \/ main' = [main EXCEPT !.pc = IF main.check_only THEN "check_latest"
                                                          ELSE "update"]
       \/ MainRaise("OSError", "load")
    /\ UNCHANGED <<remote, released, disk, tempDirs, config, inv, runs, last>>

\* --check-only: version, commit_sha = vendor_manager._get_latest_version()
MainGetLatest ==
    /\ main.pc = "check_latest"
    /\ \/ main' = [main EXCEPT !.pc = "check_current"]
       \/ MainRaise("RequestException", "get_latest")
    /\ UNCHANGED <<remote, released, disk, tempDirs, config, inv, runs, last>>

\* --check-only: current_version = vendor_manager._get_current_version();
\* print both; return 0
MainGetCurrent ==
    /\ main.pc = "check_current"
    /\ \/ main' = [main EXCEPT !.pc = "done", !.exit = "0"]
       \/ /\ verFile # None
          /\ MainRaise("OSError", "get_current")
    /\ UNCHANGED <<remote, released, disk, tempDirs, config, inv, runs, last>>

\* updated = vendor_manager.check_and_update(args.force): the call
MainUpdate ==
    /\ main.pc = "update"
    /\ inv[1].pc = "idle"
    /\ Call(1, main.force)

\* updated = vendor_manager.check_and_update(args.force): the return, or an
\* exception leaving check_and_update
MainReturn ==
    /\ main.pc = "update"
    /\ inv[1].pc = "done"
    /\ IF inv[1].result = "raised"
       THEN MainRaise(inv[1].exc[1], "update")
       ELSE main' = [main EXCEPT !.pc = "done", !.exit = UpdateExit(inv[1].result)]
    /\ UNCHANGED <<remote, released, disk, tempDirs, config, inv, runs, last>>

\* The arguments main can be given (--config always, as argparse requires).
MainArgs ==
    {[NoMain EXCEPT !.pc = "load", !.force = force, !.check_only = check_only] :
         force \in BOOLEAN, check_only \in BOOLEAN}

\* main is started once, on a destination that was vendored before or not.
InitMain ==
    /\ main \in MainArgs
    /\ remote \in Releases
    /\ released = 0
    /\ \/ verFile = None /\ infoFile = None
       \/ /\ verFile = Some(VersionText(v1))
          /\ infoFile = Some(InfoRecord(v1, "c1"))
    /\ destFiles = EmptyTree
    /\ tempDirs = EmptyTree
    /\ files_to_vendor = ConfigFiles
    /\ folders_to_vendor = ConfigFolders
    /\ inv = [p \in Procs |-> Idle]
    /\ runs = 0
    /\ last = None

NextMain ==
    \/ MainLoad
    \/ MainGetLatest
    \/ MainGetCurrent
    \/ MainUpdate
    \/ GetLatest(1)
    \/ GetCurrent(1)
    \/ Mkdtemp(1)
    \/ GitClone(1)
    \/ GitCheckout(1)
    \/ CloneExcept(1)
    \/ VendorFiles(1)
    \/ SaveVersion(1)
    \/ SaveInfo(1)
    \/ Finally(1)
    \/ Except(1)
    \/ MainReturn
    \/ Release

SpecMain == InitMain /\ [][NextMain]_vars

\* ------------------------------------------- _vendor_files on its own
\* The files a snapshot can hold, the snapshots, and the folder rules.
SomeFiles ==
    {<<n_src, n_lib_h>>, <<n_inc, n_a_h>>, <<n_inc, n_c_t>>, <<n_inc, n_int, n_b_h>>,
     <<n_inc, n_sub, n_d_h>>, <<n_inc, n_sub, n_int, n_a_h>>}

SomeTrees == {[f \in F |-> <<"c1", f>>] : F \in SUBSET SomeFiles}

SomeFileLists == {<<>>, <<<<n_src, n_lib_h>>>>, <<<<n_inc>>, <<n_src, n_lib_h>>>>}

SomePatterns == {{}, {<<"*", ".", "h">>}, {<<"i", "n", "t">>}, {<<"i", "n", "t", "/", "*">>}}

SomeRules ==
    [path : {<<n_inc>>}, include : SomePatterns, exclude : SomePatterns,
     preserve_structure : BOOLEAN]

\* check_and_update is about to call _vendor_files on a snapshot, with any of
\* the configurations and snapshots above.
InitVendor ==
    /\ main = NoMain
    /\ remote \in Releases
    /\ released = 0
    /\ verFile = None
    /\ infoFile = None
    /\ destFiles = EmptyTree
    /\ \E tree \in SomeTrees : tempDirs = PutDirIn(EmptyTree, 1, tree)
    /\ files_to_vendor \in SomeFileLists
    /\ \E rule \in SomeRules : folders_to_vendor = <<rule>>
    /\ inv = [p \in Procs |->
                IF p = 1
                THEN [Idle EXCEPT !.pc = "vendor_files", !.run = 1, !.temp_dir = 1,
                                  !.repo_path = 1, !.version = remote.version,
                                  !.commit_sha = remote.commit_sha,
                                  !.log = <<"get_latest", "get_current", "mkdtemp",
                                            "clone", "checkout">>]
                ELSE Idle]
    /\ runs = 1
    /\ last = None

NextVendor == VendorFiles(1)

SpecVendor == InitVendor /\ [][NextVendor]_vars

\* ------------------------- the try block of check_and_update on its own
\* Configurations that list files and folders a snapshot may lack: two files,
\* and two folder rules of which the first names a folder no snapshot has, a
\* path that is a file, or a nested folder.
TryFileLists ==
    {<<<<n_inc, n_c_t>>, <<n_inc, n_a_h>>>>, <<<<n_src, n_lib_h>>, <<n_inc, n_c_t>>>>}

TryRuleLists ==
    {<<[path |-> path, include |-> {}, exclude |-> {n_int},
        preserve_structure |-> first],
       [path |-> <<n_inc>>, include |-> {<<"*", ".", "h">>}, exclude |-> {n_int},
        preserve_structure |-> second]>> :
         path \in {<<n_sub>>, <<n_src, n_lib_h>>, <<n_inc, n_sub>>},
         first \in BOOLEAN, second \in BOOLEAN}

\* check_and_update cloned a snapshot and enters its inner try block.
InitTry ==
    /\ main = NoMain
    /\ remote = [version |-> v1, commit_sha |-> "c1"]
    /\ released = 0
    /\ verFile = None
    /\ infoFile = None
    /\ destFiles = EmptyTree
    /\ \E tree \in SomeTrees : tempDirs = PutDirIn(EmptyTree, 1, tree)
    /\ files_to_vendor \in TryFileLists
    /\ folders_to_vendor \in TryRuleLists
    /\ inv = [p \in Procs |->
                IF p = 1
                THEN [Idle EXCEPT !.pc = "vendor_files", !.run = 1, !.temp_dir = 1,
                                  !.repo_path = 1, !.version = remote.version,
                                  !.commit_sha = remote.commit_sha,
                                  !.log = <<"get_latest", "get_current", "mkdtemp",
                                            "clone", "checkout">>]
                ELSE Idle]
    /\ runs = 1
    /\ last = None

NextTry ==
    \/ VendorFiles(1)
    \/ SaveVersion(1)
    \/ SaveInfo(1)
    \/ Finally(1)
    \/ Except(1)

SpecTry == InitTry /\ [][NextTry]_vars

\* ============================================================== properties
Has(log, e) == \E i \in 1 .. Len(log) : log[i] = e
Pos(log, e) == CHOOSE i \in 1 .. Len(log) : log[i] = e
Failed(log) == \E i \in 1 .. Len(log) : log[i] \in Failures
Before(log, a, b) == Has(log, b) => Has(log, a) /\ Pos(log, a) < Pos(log, b)

\* The call of check_and_update that has returned, and its locals.
Returned == inv[1].pc = "done"
call == inv[1]
Ledger == <<verFile, infoFile>>
LedgerBefore == <<call.pre[1], call.pre[2]>>

\* C1: check_and_update never raises: a call that returned returned True or
\* False, and returned False whenever resolving the version, materializing,
\* copying or the ledger write failed, for either value of force.
C1_NeverRaises ==
    Returned =>
        /\ call.result \in {"True", "False"}
        /\ Failed(call.log) => call.result = "False"

\* C1 witness: a forced call whose ledger write failed has returned False.
C1_Witness ==
    /\ Returned /\ call.force
    /\ Has(call.log, "save_info_failed")
    /\ call.result = "False"

\* C2: once materialization succeeded, the snapshot directory is gone when
\* check_and_update returns, whether copy and ledger write succeeded or not.
C2_SnapshotRemoved ==
    Returned /\ Has(call.log, "checkout") =>
        /\ call.repo_path = call.run
        /\ call.repo_path \notin DOMAIN tempDirs

\* C2 witness: a call whose copy step failed after a successful checkout.
C2_Witness ==
    /\ Returned /\ Has(call.log, "checkout")
    /\ Has(call.log, "vendor_files_failed")
    /\ call.repo_path \notin DOMAIN tempDirs

\* C3 (as claimed): after any failure of _clone_repository once mkdtemp made
\* the directory, the directory is gone when check_and_update has returned
\* False, and the ledger is as before the call.
C3_NoLeakedTempDir ==
    Returned /\ (Has(call.log, "clone_failed") \/ Has(call.log, "checkout_failed")) =>
        /\ call.temp_dir \notin DOMAIN tempDirs
        /\ call.result = "False"
        /\ Ledger = LedgerBefore

\* The ledger's two files hold the version and commit of one release.
LedgerOf(r) ==
    /\ verFile = Some(VersionText(r.version))
    /\ infoFile = Some(InfoRecord(r.version, r.commit_sha))

\* C4 (as claimed): between calls, whatever failed in them, .vendor_version and
\* .vendor_info are both absent or both come from the same release.
C4_LedgerConsistent ==
    inv[1].pc \in {"idle", "done"} =>
        \/ verFile = None /\ infoFile = None
        \/ \E r \in Releases : LedgerOf(r)

\* C5: within a call the steps come in the order materialize, copy, ledger
\* write, cleanup; the ledger differs from its value before the call only once
\* checkout and every copy succeeded, and a call whose materialization or copy
\* failed leaves the ledger as it was.
C5_StepOrder ==
    /\ Before(call.log, "mkdtemp", "clone")
    /\ Before(call.log, "clone", "checkout")
    /\ Before(call.log, "checkout", "vendor_files")
    /\ Before(call.log, "checkout", "vendor_files_failed")
    /\ Before(call.log, "vendor_files", "save_version")
    /\ Before(call.log, "vendor_files", "save_version_failed")
    /\ Before(call.log, "save_version", "save_info")
    /\ Before(call.log, "save_version", "save_info_failed")
    /\ Has(call.log, "rmtree_repo_path") =>
           /\ Has(call.log, "checkout")
           /\ \A e \in {"vendor_files", "save_version", "save_info"} :
                  Has(call.log, e) => Pos(call.log, e) < Pos(call.log, "rmtree_repo_path")
    /\ call.pc # "idle" /\ Ledger # LedgerBefore =>
           Has(call.log, "checkout") /\ Has(call.log, "vendor_files")
    /\ Returned /\ (\E e \in {"mkdtemp_failed", "clone_failed", "checkout_failed",
                              "vendor_files_failed"} : Has(call.log, e)) =>
           Ledger = LedgerBefore

\* C5 witness: a call that went through all four steps and changed the ledger.
C5_Witness ==
    /\ Returned /\ call.result = "True"
    /\ Ledger # LedgerBefore
    /\ call.log = <<"get_latest", "get_current", "mkdtemp", "clone", "checkout",
                    "vendor_files", "save_version", "save_info", "rmtree_repo_path">>

\* Two calls in succession with force = False, neither with a failing step, the
\* first on a destination without ledger, the remote unchanged from the start
\* of the first to the return of the second.
TwoCalls ==
    /\ Returned /\ last # None
    /\ ~last[1].force /\ ~call.force
    /\ last[1].fresh
    /\ ~last[1].failed /\ ~Failed(call.log)
    /\ last[1].at = call.end

\* C6 (as claimed): of two such calls the first vendors and returns True, the
\* second reports no update: returns False without materialize, copy or write.
C6_Idempotent ==
    TwoCalls =>
        /\ last[1].result = "True"
        /\ call.result = "False"
        /\ call.log = <<"get_latest", "no_update">>
        /\ <<verFile, infoFile, destFiles, tempDirs>> = call.pre

SameVersion ==
    \/ call.current_version = Some(call.version)
    \/ call.pre[1] = Some(VersionText(call.version))

\* C8: with force true and the persisted version equal to the latest one, a
\* call without failing step materializes, copies, writes both ledger files
\* and returns True.
C8_ForceUpdates ==
    Returned /\ call.force /\ Has(call.log, "get_latest") /\ SameVersion
             /\ ~Failed(call.log) =>
        /\ call.result = "True"
        /\ call.log = <<"get_latest", "get_current", "mkdtemp", "clone", "checkout",
                        "vendor_files", "save_version", "save_info", "rmtree_repo_path">>
        /\ LedgerOf([version |-> call.version, commit_sha |-> call.commit_sha])
        /\ LET tree == Snapshot(call.commit_sha)
               ops == _vendor_files(tree, files_to_vendor, folders_to_vendor)
           IN destFiles = CopyAll(tree, call.pre[3], ops, Len(ops))

\* C8 witness: a forced call on an up-to-date destination has returned True.
C8_Witness ==
    /\ Returned /\ call.force
    /\ call.current_version = Some(call.version)
    /\ call.result = "True"
    /\ destFiles # EmptyTree

\* C9 (as claimed): once _save_version_info wrote .vendor_version for version
\* v, _get_current_version returns v exactly; with no .vendor_version it
\* returns None.
C9_RoundTrip ==
    /\ call.pc = "save_info" => _get_current_version = Some(call.version)
    /\ verFile = None => _get_current_version = None

\* A name matches some pattern of a list (an empty list has none).
MatchesSome(name, patterns) == \E pattern \in patterns : fnmatch(name, pattern)

\* The directories os.walk visited under the rule's folder, and the rule.
rule == folders_to_vendor[1]
Visited == {w.root : w \in {os_walk(tempDirs[1], rule.path, rule.exclude)[i] :
                i \in 1 .. Len(os_walk(tempDirs[1], rule.path, rule.exclude))}}

\* C10 (as claimed): _vendor_folder walks a subdirectory exactly when neither
\* its name nor the name of a directory between it and the rule's folder
\* matches an exclude pattern; with no exclude pattern every file under the
\* folder, at any depth, that passes the include test is in the destination.
C10_PruneOnlyExcluded ==
    call.pc = "save_version" /\ IsDir(tempDirs[1], rule.path) =>
        /\ \A d \in DirsOf(tempDirs[1]) :
               IsPrefix(rule.path, d) =>
                   (d \in Visited <=>
                        \A i \in (Len(rule.path) + 1) .. Len(d) :
                            ~MatchesSome(d[i], rule.exclude))
        /\ rule.exclude = {} =>
               \A f \in DOMAIN tempDirs[1] :
                   LET rel_path == SubSeq(f, Len(rule.path) + 1, Len(f))
                   IN IsPrefix(rule.path, f)
                      /\ (rule.include = {} \/ MatchesSome(PathStr(rel_path), rule.include))
                      => DstPath(rule.path, rel_path, rule.preserve_structure)
                             \in DOMAIN destFiles

\* ------------------------------------------------ excluded directories
\* The snapshot _vendor_files copies from, and the part of a path below the
\* rule's folder.
snapshot == tempDirs[1]
RelPath(f) == SubSeq(f, Len(rule.path) + 1, Len(f))

\* d is a directory below the rule's folder that an exclude pattern names: by
\* its name ("int"), or by a pattern for the paths below it ("int/*").
Below(d) == d \in DirsOf(snapshot) /\ IsPrefix(rule.path, d) /\ d # rule.path
NamedByName(d) == Below(d) /\ BaseName(d) \in rule.exclude
NamedByPath(d) == Below(d) /\ (PathStr(RelPath(d)) \o <<"/", "*">>) \in rule.exclude

\* os.walk visited d or a directory below it; a file below d was copied.
Traversed(d) == \E w \in Visited : IsPrefix(d, w)
CopiedFrom(d) == \E p \in DOMAIN destFiles : IsPrefix(d, destFiles[p][2])

\* The scenario of the folder rule with a path-shaped exclude pattern.
ScenarioTree ==
    [f \in {<<n_inc, n_a_h>>, <<n_inc, n_int, n_b_h>>, <<n_inc, n_c_t>>} |-> <<"c1", f>>]
ScenarioRule ==
    [path |-> <<n_inc>>, include |-> {<<"*", ".", "h">>},
     exclude |-> {<<"i", "n", "t", "/", "*">>}, preserve_structure |-> TRUE]
Scenario ==
    /\ call.pc = "save_version"
    /\ snapshot = ScenarioTree
    /\ rule = ScenarioRule
    /\ files_to_vendor = <<>>
ScenarioResult == destFiles = [p \in {<<n_inc, n_a_h>>} |-> <<"c1", <<n_inc, n_a_h>>>>]

\* C11 (as claimed): a directory that an exclude pattern names, by its name or
\* by a path-shaped pattern, is never traversed by _vendor_folder and no file
\* below it is copied, whatever the include patterns; in the scenario the
\* destination receives only inc/a.h.
C11_ExcludedNeverTraversed ==
    /\ call.pc = "save_version" =>
           \A d \in DirsOf(snapshot) :
               NamedByName(d) \/ NamedByPath(d) => ~Traversed(d) /\ ~CopiedFrom(d)
    /\ Scenario => ScenarioResult

\* C11 (amended): a directory named by a directory-name exclude pattern is
\* never traversed and no file below it is copied; a directory named by a
\* path-shaped pattern is still walked (unless a name on its path matches an
\* exclude pattern) but no file below it is copied, whatever the include
\* patterns; in the scenario the destination receives only inc/a.h.
C11_ExcludedNeverCopied ==
    /\ call.pc = "save_version" =>
           \A d \in DirsOf(snapshot) :
               /\ NamedByName(d) => ~Traversed(d) /\ ~CopiedFrom(d)
               /\ NamedByPath(d) =>
                      /\ ~CopiedFrom(d)
                      /\ d \in Visited <=>
                             \A i \in (Len(rule.path) + 1) .. Len(d) :
                                 ~MatchesSome(d[i], rule.exclude)
    /\ Scenario => ScenarioResult

\* The scenario ran: inc/int was walked, and only inc/a.h was copied.
C11_Witness ==
    /\ Scenario
    /\ NamedByPath(<<n_inc, n_int>>)
    /\ <<n_inc, n_int>> \in Visited
    /\ DOMAIN destFiles = {<<n_inc, n_a_h>>}

\* ------------------------------------------------- the per-file test
\* The files os.walk listed: those directly in a visited directory.
Walked == {f \in DOMAIN snapshot : SubSeq(f, 1, Len(f) - 1) \in Visited}

\* The relative path of a walked file, as the string the test is given.
rel_path_str(f) == PathStr(RelPath(f))

\* C12: _should_include_file(P, I, E) is true exactly when (I is empty or P
\* matches a pattern of I) and not (E is non-empty and P matches a pattern of
\* E); so with preserved structure a walked file is in the destination
\* exactly when that holds of its relative path.
C12_ShouldInclude ==
    /\ \A f \in DOMAIN snapshot : \A I \in SomePatterns : \A E \in SomePatterns :
           IsPrefix(rule.path, f) =>
               (_should_include_file(rel_path_str(f), I, E) <=>
                    /\ I = {} \/ MatchesSome(rel_path_str(f), I)
                    /\ ~(E # {} /\ MatchesSome(rel_path_str(f), E)))
    /\ call.pc = "save_version" /\ IsDir(snapshot, rule.path)
           /\ rule.preserve_structure /\ files_to_vendor = <<>> =>
           \A f \in Walked :
               (<<BaseName(rule.path)>> \o RelPath(f)) \in DOMAIN destFiles <=>
                   /\ rule.include = {} \/ MatchesSome(rel_path_str(f), rule.include)
                   /\ ~(rule.exclude # {} /\ MatchesSome(rel_path_str(f), rule.exclude))

\* A rule with both lists non-empty ran on walked files of each kind: one
\* that was copied, one the include list rejects, one the exclude list rejects.
C12_Witness ==
    /\ call.pc = "save_version"
    /\ rule.include # {} /\ rule.exclude # {} /\ rule.preserve_structure
    /\ files_to_vendor = <<>>
    /\ \E f \in Walked : (<<BaseName(rule.path)>> \o RelPath(f)) \in DOMAIN destFiles
    /\ \E f \in Walked : ~MatchesSome(rel_path_str(f), rule.include)
    /\ \E f \in Walked : /\ MatchesSome(rel_path_str(f), rule.include)
                          /\ MatchesSome(rel_path_str(f), rule.exclude)

\* ------------------------------------------- absent files and folders
\* The try block ran to its return statement: the finally clause is next and
\* the snapshot still exists.
TryDone == call.pc = "finally" /\ call.exc = None

\* C13: a configured file or folder that the snapshot lacks, or a folder path
\* that is not a directory, is skipped without error: every configured file
\* the snapshot has and every folder rule whose path is a directory is still
\* processed, the ledger is written, and check_and_update returns True.
C13_MissingSkipped ==
    /\ TryDone =>
           /\ \A i \in 1 .. Len(files_to_vendor) :
                  files_to_vendor[i] \in DOMAIN snapshot =>
                      /\ <<BaseName(files_to_vendor[i])>> \in DOMAIN destFiles
                      /\ destFiles[<<BaseName(files_to_vendor[i])>>]
                             = snapshot[files_to_vendor[i]]
           /\ \A j \in 1 .. Len(folders_to_vendor) :
                  IsDir(snapshot, folders_to_vendor[j].path) =>
                      \A k \in 1 .. Len(_vendor_folder(snapshot, folders_to_vendor[j])) :
                          _vendor_folder(snapshot, folders_to_vendor[j])[k].dst
                              \in DOMAIN destFiles
           /\ verFile = Some(call.version \o <<"\n">>)
           /\ infoFile = Some([version |-> call.version, commit_sha |-> call.commit_sha])
    /\ Returned /\ ~Failed(call.log) => call.result = "True"

\* A run returned True although the snapshot lacked the first configured file
\* and the first rule's folder: the second file and the second rule were
\* processed and the ledger was written.
C13_Witness ==
    /\ Returned /\ call.result = "True"
    /\ files_to_vendor = <<<<n_inc, n_c_t>>, <<n_inc, n_a_h>>>>
    /\ <<n_c_t>> \notin DOMAIN destFiles
    /\ <<n_a_h>> \in DOMAIN destFiles
    /\ folders_to_vendor[1].path = <<n_sub>>
    /\ \A p \in DOMAIN destFiles : p[1] # n_sub
    /\ <<n_inc, n_a_h>> \in DOMAIN destFiles
    /\ verFile # None /\ infoFile # None

\* ------------------------------------------------ destination mapping
\* The configured individual files the snapshot has, and the files a folder
\* rule selects: those os.walk lists that pass the per-file test.
ListedFiles ==
    {files_to_vendor[i] : i \in 1 .. Len(files_to_vendor)} \cap DOMAIN snapshot
WalkOf(r) == os_walk(snapshot, r.path, r.exclude)
Selected(r) ==
    IF ~IsDir(snapshot, r.path) THEN {}
    ELSE {f \in DOMAIN snapshot :
            /\ \E i \in 1 .. Len(WalkOf(r)) : WalkOf(r)[i].root = SubSeq(f, 1, Len(f) - 1)
            /\ _should_include_file(PathStr(SubSeq(f, Len(r.path) + 1, Len(f))),
                                    r.include, r.exclude)}

\* Where the claim puts a file of a folder rule, relative to the destination.
FolderTarget(r, f) ==
    IF r.preserve_structure
    THEN <<r.path[Len(r.path)]>> \o SubSeq(f, Len(r.path) + 1, Len(f))
    ELSE <<r.path[Len(r.path)], f[Len(f)]>>

Rules == {folders_to_vendor[j] : j \in 1 .. Len(folders_to_vendor)}

\* C14: the copy step writes each listed individual file to
\* <destination>/<its base name>, each selected file of a folder rule to
\* <destination>/<folder base name>/<relative path> with preserve_structure
\* and to <destination>/<folder base name>/<file base name> without, each with
\* the content of a file mapped there, and writes no other destination path.
C14_DestinationMapping ==
    call.pc = "save_version" =>
        /\ DOMAIN destFiles =
               {<<f[Len(f)]>> : f \in ListedFiles}
                   \cup UNION {{FolderTarget(r, f) : f \in Selected(r)} : r \in Rules}
        /\ \A p \in DOMAIN destFiles :
               \/ \E f \in ListedFiles : p = <<f[Len(f)]>> /\ destFiles[p] = snapshot[f]
               \/ \E r \in Rules : \E f \in Selected(r) :
                      p = FolderTarget(r, f) /\ destFiles[p] = snapshot[f]

\* The copy step ran with an individual file, a rule on the nested folder
\* inc/sub, and a flattening rule on inc that selected inc/sub/d.h.
C14_Witness ==
    /\ call.pc = "save_version"
    /\ <<n_a_h>> \in DOMAIN destFiles
    /\ folders_to_vendor[1].path = <<n_inc, n_sub>>
    /\ <<n_sub, n_d_h>> \in DOMAIN destFiles
    /\ ~folders_to_vendor[2].preserve_structure
    /\ <<n_inc, n_d_h>> \in DOMAIN destFiles

\* ------------------------------------------------------ main's exit code
MainDone == main.pc = "done"

\* C15 (as claimed): main returns 1 only when loading the configuration
\* failed, and 0 in every other case: update, no update, --check-only, and
\* any failure of a step.
C15_ExitOneOnlyOnLoad ==
    MainDone =>
        /\ main.exit \in {"0", "1"}
        /\ main.exit = "1" <=> main.failed = "load"

\* C15 (amended): main returns 1 when loading the configuration failed, and
\* with --check-only also when resolving the latest version or reading the
\* current version failed; it returns 0 in every other case: update, no
\* update, a --check-only that printed both versions, and any failure inside
\* check_and_update.
C15_ExitCode ==
    MainDone =>
        /\ main.exit \in {"0", "1"}
        /\ main.exit = "1" <=>
               \/ main.failed = "load"
               \/ main.check_only /\ main.failed \in {"get_latest", "get_current"}
        /\ ~main.check_only /\ main.failed = "none" =>
               /\ Returned /\ call.result \in {"True", "False"}
               /\ main.exit = "0"

\* main returned 0 after a check_and_update in which a step failed.
C15_Witness ==
    /\ MainDone /\ main.exit = "0"
    /\ Returned /\ Failed(call.log) /\ call.result = "False"

\* -------------------------------------------- concurrent invocations
\* The positions at which an invocation uses the directory mkdtemp gave it.
CloningPcs == {"clone", "checkout"}
TryPcs == {"vendor_files", "save_version", "save_info", "finally"}

\* C16: two concurrent invocations on one destination are not coordinated:
\* each removes its own snapshot directory only (an invocation's directory
\* exists, and is no other invocation's, for as long as it uses it), while
\* their ledger writes can interleave so that .vendor_version holds the tag of
\* one invocation and .vendor_info the version and commit of the other.
C16_OwnSnapshotOnly ==
    \A q \in Procs :
        /\ inv[q].pc \in CloningPcs \cup TryPcs => inv[q].temp_dir \in DOMAIN tempDirs
        /\ inv[q].pc \in TryPcs =>
               /\ inv[q].repo_path = inv[q].temp_dir
               /\ tempDirs[inv[q].repo_path] = Snapshot(inv[q].commit_sha)
        /\ \A p \in Procs \ {q} :
               inv[p].pc \in CloningPcs \cup TryPcs /\ inv[q].pc \in CloningPcs \cup TryPcs
                   => inv[p].temp_dir # inv[q].temp_dir

\* Both invocations returned True for different versions, no temporary
\* directory is left, and the two ledger files name different invocations.
C16_Witness ==
    /\ \A p \in Procs : inv[p].pc = "done" /\ inv[p].result = "True"
    /\ inv[1].version # inv[2].version
    /\ tempDirs = EmptyTree
    /\ \E p \in Procs : \E q \in Procs \ {p} :
           /\ verFile = Some(inv[p].version \o <<"\n">>)
           /\ infoFile = Some([version |-> inv[q].version,
                               commit_sha |-> inv[q].commit_sha])

\* ------------------------------------------------ the return value
\* Both ledger files were written in this call: both writes completed.
WroteLedger == Has(call.log, "save_version") /\ Has(call.log, "save_info")

\* C17: check_and_update returns True exactly when in this call both ledger
\* files were written: a call that returned True left .vendor_version and
\* .vendor_info recording the version and commit it resolved, and a call that
\* completed both writes returned True.
C17_TrueIffLedgerWritten ==
    Returned =>
        /\ call.result = "True" <=> WroteLedger
        /\ call.result = "True" =>
               /\ verFile = Some(call.version \o <<"\n">>)
               /\ infoFile = Some([version |-> call.version,
                                   commit_sha |-> call.commit_sha])
               /\ call.version = remote.version \/ released > call.at

\* A call returned True and moved the ledger from another version to the
\* one it resolved.
C17_Witness ==
    /\ Returned /\ call.result = "True" /\ WroteLedger
    /\ LedgerBefore # <<None, None>>
    /\ LedgerBefore # Ledger
    /\ infoFile = Some([version |-> call.version, commit_sha |-> call.commit_sha])

\* ------------------------------------------------ nothing is deleted
\* The destination files before the call, and the destination paths the call
\* copies to: those of the snapshot it checked out, if it got that far.
DestBefore == call.pre[3]
Targets ==
    IF ~Has(call.log, "checkout") THEN {}
    ELSE LET ops == _vendor_files(Snapshot(call.commit_sha), files_to_vendor,
                                  folders_to_vendor)
         IN {ops[i].dst : i \in 1 .. Len(ops)}

\* C18: vendoring only adds or overwrites: at every point of a call every
\* destination file that existed before the call still exists, and every one
\* that is not the target of a copy of this call has the content it had.
C18_OnlyAddsOrOverwrites ==
    call.pc # "idle" /\ destFiles # DestBefore =>
        LET targets == Targets
        IN /\ DOMAIN DestBefore \subseteq DOMAIN destFiles
           /\ \A path \in DOMAIN DestBefore :
                  destFiles[path] # DestBefore[path] => path \in targets
           /\ (DOMAIN destFiles) \ (DOMAIN DestBefore) \subseteq targets

\* A call vendored commit c2 over a destination vendored from c1: l.h, which
\* c2 no longer has, is still there with its old content, and inc/a.h was
\* overwritten.
C18_Witness ==
    /\ Returned /\ call.result = "True" /\ call.commit_sha = "c2"
    /\ <<n_lib_h>> \in DOMAIN DestBefore
    /\ <<n_lib_h>> \notin Targets
    /\ <<n_lib_h>> \in DOMAIN destFiles
    /\ <<n_inc, n_a_h>> \in DOMAIN DestBefore \cap DOMAIN destFiles
    /\ destFiles[<<n_lib_h>>] = <<"c1", <<n_src, n_lib_h>>>>
    /\ destFiles[<<n_inc, n_a_h>>] = <<"c2", <<n_inc, n_a_h>>>>
    /\ DestBefore[<<n_inc, n_a_h>>] = <<"c1", <<n_inc, n_a_h>>>>

====
